---- MODULE Spec2Model ----
(***************************************************************************)
(* Iris classification service: the ModelService singleton                 *)
(* (app/predict.py), the request schema (app/schemas.py), the HTTP         *)
(* handlers and the lifespan hook (app/main.py) and the training script    *)
(* that writes the two artifacts (train.py).                               *)
(*                                                                         *)
(* Floats are modelled as integers (centimetres for the measurements,      *)
(* percent for probabilities and accuracy).  Python's None is the string   *)
(* "None" for the model and the record MetaNone for the metadata.  A       *)
(* Python dict with optional keys is a record that carries the set "has"   *)
(* of keys it holds; an ordered dict built by zip() is a sequence of       *)
(* <<key, value>> pairs.                                                   *)
(***************************************************************************)
EXTENDS Integers, Sequences, FiniteSets

VARIABLES
    modelFile,  \* content of model/iris_model.joblib on disk
    metaFile,   \* content of model/metadata.joblib on disk
    _model,     \* ModelService._model
    _metadata,  \* ModelService._metadata
    phase,      \* "direct": app object driven without its lifespan;
                \* "starting" / "serving" / "aborted": the served process
    req,        \* the operation performed last
    resp,       \* what it returned or raised
    trace       \* what it touched: wrapper methods called, vectors given
                \* to the underlying classifier, artifacts deserialised

vars == <<modelFile, metaFile, _model, _metadata, phase, req, resp, trace>>

----------------------------------------------------------------------------
(* Bounds *)

MaxBatch == 2

----------------------------------------------------------------------------
(* Program constants *)

FieldMin == 0
FieldMax == 10
NFeatures == 4
NClasses == 3

FieldNames == <<"sepal_length", "sepal_width", "petal_length", "petal_width">>

SyntheticNames == <<"class_0", "class_1", "class_2">>

IrisFeatureNames ==
    <<"sepal length (cm)", "sepal width (cm)",
      "petal length (cm)", "petal width (cm)">>

IrisTargetNames == <<"setosa", "versicolor", "virginica">>

----------------------------------------------------------------------------
(* Helpers *)

Range(s) == {s[i] : i \in 1..Len(s)}

RECURSIVE SumSeq(_)
SumSeq(s) == IF s = <<>> THEN 0 ELSE Head(s) + SumSeq(Tail(s))

Min(a, b) == IF a < b THEN a ELSE b

SeqsUpTo(S, n) == UNION {[1..k -> S] : k \in 0..n}

----------------------------------------------------------------------------
(* Artifacts on disk *)

Models == {"rfA", "rfB"}

ModelFileStates == {"absent", "unreadable"} \cup Models

MetaFileStates == {"absent", "unreadable", "full", "partial"}

MetaNone ==
    [isNone |-> TRUE, has |-> {}, feature_names |-> <<>>,
     target_names |-> <<>>, accuracy |-> 0, n_features |-> 0]

MetaEmpty == [MetaNone EXCEPT !.isNone = FALSE]

\* the record train.py writes
MetaFull ==
    [isNone |-> FALSE,
     has |-> {"feature_names", "target_names", "accuracy", "n_features"},
     feature_names |-> IrisFeatureNames,
     target_names |-> IrisTargetNames,
     accuracy |-> 96,
     n_features |-> Len(IrisFeatureNames)]

\* a metadata record that lacks the name lists
MetaPartial == [MetaEmpty EXCEPT !.has = {"accuracy"}, !.accuracy = 96]

MetaContent(f) == IF f = "full" THEN MetaFull ELSE MetaPartial

\* dict.get(key, default)
DictGet(md, key, default) ==
    IF key \in md.has
    THEN CASE key = "feature_names" -> md.feature_names
           [] key = "target_names" -> md.target_names
           [] OTHER -> default
    ELSE default

----------------------------------------------------------------------------
(* The underlying classifier: an opaque deterministic function of the      *)
(* feature vector.  It rejects a vector whose length is not NFeatures.     *)

ModelOffset(m) == IF m = "rfA" THEN 0 ELSE 1

ModelAccepts(X) == Len(X) = NFeatures

Classify(m, X) == (SumSeq(X) + ModelOffset(m)) % NClasses

PredictProba(m, X) ==
    [k \in 1..NClasses |-> IF k - 1 = Classify(m, X) THEN 80 ELSE 10]

----------------------------------------------------------------------------
(* Errors and results *)

NoErr == [type |-> "", msg |-> ""]

NotLoadedErr ==
    [type |-> "RuntimeError",
     msg |-> "Model not loaded. Call load_model() first."]

NotFoundErr ==
    [type |-> "FileNotFoundError",
     msg |-> "Model file not found at model/iris_model.joblib"]

UnpickleErr == [type |-> "UnpicklingError", msg |-> "invalid load key"]

NoneGetErr ==
    [type |-> "AttributeError",
     msg |-> "'NoneType' object has no attribute 'get'"]

IndexErr == [type |-> "IndexError", msg |-> "list index out of range"]

ShapeErr ==
    [type |-> "ValueError",
     msg |-> "X has a different number of features than expected"]

NoPrediction ==
    [predicted_class |-> "", confidence |-> 0, probabilities |-> <<>>]

----------------------------------------------------------------------------
(* ModelService (app/predict.py) *)

\* load_model past its early return: the wrapper's fields after the call,
\* the error it raised and the artifacts it deserialised
ReadArtifacts(m, md, mf, mdf) ==
    IF mf = "absent"
    THEN [model |-> m, metadata |-> md, err |-> NotFoundErr, reads |-> {}]
    ELSE IF mf = "unreadable"
    THEN [model |-> m, metadata |-> md, err |-> UnpickleErr,
          reads |-> {"model"}]
    ELSE \* self._model is assigned here, before the metadata is read
         IF mdf = "absent"
         THEN [model |-> mf, metadata |-> MetaEmpty, err |-> NoErr,
               reads |-> {"model"}]
         ELSE IF mdf = "unreadable"
         THEN [model |-> mf, metadata |-> md, err |-> UnpickleErr,
               reads |-> {"model", "metadata"}]
         ELSE [model |-> mf, metadata |-> MetaContent(mdf), err |-> NoErr,
               reads |-> {"model", "metadata"}]

\* a load_model that lacks the "already loaded" early return
load_model_reloads(m, md, mf, mdf) == ReadArtifacts(m, md, mf, mdf)

\* a load_model that treats a missing metadata artifact as fatal too
load_model_requires_metadata(m, md, mf, mdf) ==
    IF m # "None"
    THEN [model |-> m, metadata |-> md, err |-> NoErr, reads |-> {}]
    ELSE IF mdf = "absent"
    THEN [model |-> m, metadata |-> md, err |-> NotFoundErr, reads |-> {}]
    ELSE ReadArtifacts(m, md, mf, mdf)

ModelService_load_model(m, md, mf, mdf) ==
    IF m # "None"
    THEN [model |-> m, metadata |-> md, err |-> NoErr, reads |-> {}]
    ELSE ReadArtifacts(m, md, mf, mdf)

\* class names that ignore the metadata
synthetic_names_only(md) == SyntheticNames

\* the class names predict resolves an index with
class_names_of(md) == DictGet(md, "target_names", SyntheticNames)

\* predict: the error raised or the tuple returned, and the vectors the
\* underlying classifier was called with
ModelService_predict(m, md, X) ==
    IF m = "None"
    THEN [err |-> NotLoadedErr, value |-> NoPrediction, evals |-> <<>>]
    ELSE IF ~ModelAccepts(X)
    THEN [err |-> ShapeErr, value |-> NoPrediction, evals |-> <<X>>]
    ELSE IF md.isNone
    THEN [err |-> NoneGetErr, value |-> NoPrediction, evals |-> <<X>>]
    ELSE LET prediction == Classify(m, X)
             probabilities == PredictProba(m, X)
             class_names == class_names_of(md)
         IN  IF prediction + 1 > Len(class_names)
             THEN [err |-> IndexErr, value |-> NoPrediction,
                   evals |-> <<X>>]
             ELSE [err |-> NoErr,
                   value |->
                     [predicted_class |-> class_names[prediction + 1],
                      confidence |-> probabilities[prediction + 1],
                      probabilities |->
                        [i \in 1..Min(Len(class_names), Len(probabilities))
                           |-> <<class_names[i], probabilities[i]>>]],
                   evals |-> <<X>>]

\* a predict_batch that returns its results in reverse order
RECURSIVE predict_batch_reversed(_, _, _)
predict_batch_reversed(m, md, Xs) ==
    IF Xs = <<>>
    THEN [err |-> NoErr, values |-> <<>>, evals |-> <<>>]
    ELSE LET h == ModelService_predict(m, md, Head(Xs))
         IN  IF h.err # NoErr
             THEN [err |-> h.err, values |-> <<>>, evals |-> h.evals]
             ELSE LET t == predict_batch_reversed(m, md, Tail(Xs))
                  IN  IF t.err # NoErr
                      THEN [err |-> t.err, values |-> <<>>,
                            evals |-> h.evals \o t.evals]
                      ELSE [err |-> NoErr,
                            values |-> t.values \o <<h.value>>,
                            evals |-> h.evals \o t.evals]

\* a predict_batch that skips a failing instance and carries on
RECURSIVE predict_batch_skips_failures(_, _, _)
predict_batch_skips_failures(m, md, Xs) ==
    IF Xs = <<>>
    THEN [err |-> NoErr, values |-> <<>>, evals |-> <<>>]
    ELSE LET h == ModelService_predict(m, md, Head(Xs))
             t == predict_batch_skips_failures(m, md, Tail(Xs))
         IN  [err |-> NoErr,
              values |-> IF h.err # NoErr THEN t.values
                         ELSE <<h.value>> \o t.values,
              evals |-> h.evals \o t.evals]

\* predict_batch: the list comprehension, evaluated left to right; the
\* first exception leaves the comprehension and discards the partial list
RECURSIVE ModelService_predict_batch(_, _, _)
ModelService_predict_batch(m, md, Xs) ==
    IF Xs = <<>>
    THEN [err |-> NoErr, values |-> <<>>, evals |-> <<>>]
    ELSE LET h == ModelService_predict(m, md, Head(Xs))
         IN  IF h.err # NoErr
             THEN [err |-> h.err, values |-> <<>>, evals |-> h.evals]
             ELSE LET t == ModelService_predict_batch(m, md, Tail(Xs))
                  IN  IF t.err # NoErr
                      THEN [err |-> t.err, values |-> <<>>,
                            evals |-> h.evals \o t.evals]
                      ELSE [err |-> NoErr,
                            values |-> <<h.value>> \o t.values,
                            evals |-> h.evals \o t.evals]

\* get_metadata: None and the empty dict are both falsy
ModelService_get_metadata(md) ==
    IF md.isNone \/ md.has = {} THEN MetaEmpty ELSE md

ModelService_is_loaded(m) == m # "None"

----------------------------------------------------------------------------
(* Request schema (app/schemas.py) *)

\* a field whose bounds are exclusive (gt / lt)
FieldValid_exclusive(inst, f) ==
    /\ f \in DOMAIN inst
    /\ inst[f] > FieldMin
    /\ inst[f] < FieldMax

\* one bounded float field: required, ge=0, le=10
FieldValid(inst, f) ==
    /\ f \in DOMAIN inst
    /\ inst[f] >= FieldMin
    /\ inst[f] <= FieldMax

PredictionInput_valid(inst) == \A f \in Range(FieldNames) : FieldValid(inst, f)

BatchPredictionInput_valid(insts) ==
    \A i \in 1..Len(insts) : PredictionInput_valid(insts[i])

\* the positional feature list the handlers build from a validated body
Features(inst) == [i \in 1..Len(FieldNames) |-> inst[FieldNames[i]]]

----------------------------------------------------------------------------
(* Requests, responses *)

Instance(sl, sw, pl, pw) ==
    [sepal_length |-> sl, sepal_width |-> sw,
     petal_length |-> pl, petal_width |-> pw]

\* JSON bodies a client may post: in range (boundaries included), out of
\* range on either side, and with a field left out
JsonInstances ==
    { Instance(0, 0, 0, 0), Instance(10, 10, 10, 10),
      Instance(11, 3, 1, 0), Instance(5, 3, 1, -1),
      [sepal_length |-> 5, petal_length |-> 1, petal_width |-> 0] }

\* lists a caller may hand to the wrapper directly: well-formed (in and out
\* of the schema's range) and of the wrong length
FeatureVectors ==
    { <<0, 0, 0, 0>>, <<11, 3, 1, -1>>, <<5, 3, 1>> }

NoHealth ==
    [status |-> "", model_loaded |-> FALSE,
     model_info |-> [accuracy |-> [known |-> FALSE, value |-> 0],
                     features |-> <<>>, classes |-> <<>>,
                     n_features |-> 0]]

NoBanner == [message |-> "", status |-> "", docs |-> "", health |-> ""]

NoResp ==
    [status |-> 0, err |-> NoErr, detail |-> <<>>, preds |-> <<>>,
     health |-> NoHealth, banner |-> NoBanner,
     loaded |-> FALSE, metadata |-> MetaNone]

NoTrace == [calls |-> {}, evals |-> <<>>, reads |-> {}]

Req(op) == [op |-> op, instances |-> <<>>, vectors |-> <<>>]

HttpOps == {"GET /", "GET /health", "POST /predict", "POST /predict/batch"}

----------------------------------------------------------------------------
(* HTTP handlers (app/main.py) *)

root == [NoResp EXCEPT !.status = 200,
                       !.banner = [message |-> "Iris Classification API",
                                   status |-> "running",
                                   docs |-> "/docs",
                                   health |-> "/health"]]

\* a status derived from the metadata instead of the model
health_status_from_metadata(m, md) ==
    IF md.isNone \/ md.has = {} THEN "unhealthy" ELSE "healthy"

health_status(m, md) ==
    IF ModelService_is_loaded(m) THEN "healthy" ELSE "unhealthy"

health_check(m, md) ==
    LET metadata == ModelService_get_metadata(md)
    IN  [status |-> health_status(m, md),
         model_loaded |-> ModelService_is_loaded(m),
         model_info |->
           [accuracy |-> IF "accuracy" \in metadata.has
                         THEN [known |-> TRUE, value |-> metadata.accuracy]
                         ELSE [known |-> FALSE, value |-> 0],
            features |-> DictGet(metadata, "feature_names", <<>>),
            classes |-> DictGet(metadata, "target_names", <<>>),
            n_features |-> IF "n_features" \in metadata.has
                           THEN metadata.n_features ELSE 0]]

\* the framework's answer to a body that fails schema validation
ValidationError == [NoResp EXCEPT !.status = 422,
                                  !.detail = <<"validation error">>]

\* POST /predict: response and trace
predict(m, md, inst) ==
    IF ~PredictionInput_valid(inst)
    THEN [resp |-> ValidationError, trace |-> NoTrace]
    ELSE LET r == ModelService_predict(m, md, Features(inst))
         IN  IF r.err # NoErr
             THEN [resp |-> [NoResp EXCEPT
                               !.status = 500,
                               !.err = r.err,
                               !.detail = <<"Prediction failed: ", r.err.msg>>],
                   trace |-> [calls |-> {"predict"}, evals |-> r.evals,
                              reads |-> {}]]
             ELSE [resp |-> [NoResp EXCEPT !.status = 200,
                                           !.preds = <<r.value>>],
                   trace |-> [calls |-> {"predict"}, evals |-> r.evals,
                              reads |-> {}]]

\* POST /predict/batch: response and trace
predict_batch(m, md, insts) ==
    IF ~BatchPredictionInput_valid(insts)
    THEN [resp |-> ValidationError, trace |-> NoTrace]
    ELSE LET features_list == [i \in 1..Len(insts) |-> Features(insts[i])]
             r == ModelService_predict_batch(m, md, features_list)
             calls == IF insts = <<>> THEN {"predict_batch"}
                      ELSE {"predict_batch", "predict"}
         IN  IF r.err # NoErr
             THEN [resp |-> [NoResp EXCEPT
                               !.status = 500,
                               !.err = r.err,
                               !.detail = <<"Batch prediction failed: ",
                                            r.err.msg>>],
                   trace |-> [calls |-> calls, evals |-> r.evals,
                              reads |-> {}]]
             ELSE [resp |-> [NoResp EXCEPT !.status = 200,
                                           !.preds = r.values],
                   trace |-> [calls |-> calls, evals |-> r.evals,
                              reads |-> {}]]

\* a lifespan that logs the load error without re-raising it
lifespan_swallows(err) == "serving"

\* lifespan: the phase the process is in once the startup hook has run
lifespan(err) == IF err # NoErr THEN "aborted" ELSE "serving"

----------------------------------------------------------------------------
(* Initial states *)

InitCommon ==
    /\ modelFile \in ModelFileStates
    /\ metaFile \in MetaFileStates
    /\ _model = "None"
    /\ _metadata = MetaNone
    /\ req = Req("none")
    /\ resp = NoResp
    /\ trace = NoTrace

\* the wrapper and the handlers driven directly, the lifespan not run
Init == InitCommon /\ phase = "direct"

\* the served process, about to run its startup hook
AppInit == InitCommon /\ phase = "starting"

Handling == phase \in {"direct", "serving"}

----------------------------------------------------------------------------
(* The artifacts change on disk *)

\* train.py: writes a fitted classifier and the full metadata record
train_model ==
    /\ \E m \in Models : modelFile' = m
    /\ metaFile' = "full"
    /\ req' = Req("train")
    /\ resp' = NoResp
    /\ trace' = NoTrace
    /\ UNCHANGED <<_model, _metadata, phase>>

\* an artifact is removed, damaged or replaced
FileChange ==
    /\ \E mf \in ModelFileStates, mdf \in MetaFileStates :
          /\ <<mf, mdf>> # <<modelFile, metaFile>>
          /\ modelFile' = mf
          /\ metaFile' = mdf
    /\ req' = Req("disk")
    /\ resp' = NoResp
    /\ trace' = NoTrace
    /\ UNCHANGED <<_model, _metadata, phase>>

----------------------------------------------------------------------------
(* Direct calls on the wrapper *)

CallLoadModel ==
    /\ phase = "direct"
    /\ LET r == ModelService_load_model(_model, _metadata, modelFile, metaFile)
       IN  /\ _model' = r.model
           /\ _metadata' = r.metadata
           /\ resp' = [NoResp EXCEPT !.err = r.err]
           /\ trace' = [calls |-> {"load_model"}, evals |-> <<>>,
                        reads |-> r.reads]
    /\ req' = Req("load_model")
    /\ UNCHANGED <<modelFile, metaFile, phase>>

CallPredict ==
    /\ phase = "direct"
    /\ \E X \in FeatureVectors :
          LET r == ModelService_predict(_model, _metadata, X)
          IN  /\ req' = [Req("predict") EXCEPT !.vectors = <<X>>]
              /\ resp' = [NoResp EXCEPT
                            !.err = r.err,
                            !.preds = IF r.err = NoErr THEN <<r.value>>
                                      ELSE <<>>]
              /\ trace' = [calls |-> {"predict"}, evals |-> r.evals,
                           reads |-> {}]
    /\ UNCHANGED <<modelFile, metaFile, _model, _metadata, phase>>

CallPredictBatch ==
    /\ phase = "direct"
    /\ \E Xs \in SeqsUpTo(FeatureVectors, MaxBatch) :
          LET r == ModelService_predict_batch(_model, _metadata, Xs)
          IN  /\ req' = [Req("predict_batch") EXCEPT !.vectors = Xs]
              /\ resp' = [NoResp EXCEPT !.err = r.err, !.preds = r.values]
              /\ trace' = [calls |-> IF Xs = <<>> THEN {"predict_batch"}
                                     ELSE {"predict_batch", "predict"},
                           evals |-> r.evals, reads |-> {}]
    /\ UNCHANGED <<modelFile, metaFile, _model, _metadata, phase>>

CallIsLoaded ==
    /\ phase = "direct"
    /\ req' = Req("is_loaded")
    /\ resp' = [NoResp EXCEPT !.loaded = ModelService_is_loaded(_model)]
    /\ trace' = [NoTrace EXCEPT !.calls = {"is_loaded"}]
    /\ UNCHANGED <<modelFile, metaFile, _model, _metadata, phase>>

CallGetMetadata ==
    /\ phase = "direct"
    /\ req' = Req("get_metadata")
    /\ resp' = [NoResp EXCEPT
                  !.metadata = ModelService_get_metadata(_metadata)]
    /\ trace' = [NoTrace EXCEPT !.calls = {"get_metadata"}]
    /\ UNCHANGED <<modelFile, metaFile, _model, _metadata, phase>>

----------------------------------------------------------------------------
(* HTTP requests *)

GetRoot ==
    /\ Handling
    /\ req' = Req("GET /")
    /\ resp' = root
    /\ trace' = NoTrace
    /\ UNCHANGED <<modelFile, metaFile, _model, _metadata, phase>>

GetHealth ==
    /\ Handling
    /\ req' = Req("GET /health")
    /\ resp' = [NoResp EXCEPT !.status = 200,
                              !.health = health_check(_model, _metadata)]
    /\ trace' = [NoTrace EXCEPT !.calls = {"get_metadata", "is_loaded"}]
    /\ UNCHANGED <<modelFile, metaFile, _model, _metadata, phase>>

PostPredict ==
    /\ Handling
    /\ \E inst \in JsonInstances :
          LET r == predict(_model, _metadata, inst)
          IN  /\ req' = [Req("POST /predict") EXCEPT !.instances = <<inst>>]
              /\ resp' = r.resp
              /\ trace' = r.trace
    /\ UNCHANGED <<modelFile, metaFile, _model, _metadata, phase>>

PostPredictBatch ==
    /\ Handling
    /\ \E insts \in SeqsUpTo(JsonInstances, MaxBatch) :
          LET r == predict_batch(_model, _metadata, insts)
          IN  /\ req' = [Req("POST /predict/batch") EXCEPT
                           !.instances = insts]
              /\ resp' = r.resp
              /\ trace' = r.trace
    /\ UNCHANGED <<modelFile, metaFile, _model, _metadata, phase>>

----------------------------------------------------------------------------
(* Process startup *)

\* the lifespan hook: load_model, re-raise on failure, else start serving
Startup ==
    /\ phase = "starting"
    /\ LET r == ModelService_load_model(_model, _metadata, modelFile, metaFile)
       IN  /\ _model' = r.model
           /\ _metadata' = r.metadata
           /\ resp' = [NoResp EXCEPT !.err = r.err]
           /\ trace' = [calls |-> {"load_model"}, evals |-> <<>>,
                        reads |-> r.reads]
           /\ phase' = lifespan(r.err)
    /\ req' = Req("startup")
    /\ UNCHANGED <<modelFile, metaFile>>

----------------------------------------------------------------------------
(* Specifications *)

Next ==
    \/ train_model
    \/ FileChange
    \/ CallLoadModel
    \/ CallPredict
    \/ CallPredictBatch
    \/ CallIsLoaded
    \/ CallGetMetadata
    \/ GetRoot
    \/ GetHealth
    \/ PostPredict
    \/ PostPredictBatch

Spec == Init /\ [][Next]_vars

AppNext ==
    \/ train_model
    \/ FileChange
    \/ Startup
    \/ GetRoot
    \/ GetHealth
    \/ PostPredict
    \/ PostPredictBatch

SpecApp == AppInit /\ [][AppNext]_vars

----------------------------------------------------------------------------
(* Vocabulary of the properties *)

\* load() has run to completion: model and metadata are both set
LoadSucceeded == _model # "None" /\ ~_metadata.isNone

\* a JSON instance with all four fields present and in [0,10]
InstanceInRange(inst) ==
    \A f \in {"sepal_length", "sepal_width", "petal_length", "petal_width"} :
        f \in DOMAIN inst /\ inst[f] \in 0..10

BodyInRange == \A i \in 1..Len(req.instances) : InstanceInRange(req.instances[i])

\* a list of four numbers
WellFormed(X) == Len(X) = 4

\* the vectors the wrapper was (or would be) given by the last operation
ReqVectors ==
    IF req.op \in {"predict", "predict_batch"}
    THEN req.vectors
    ELSE [i \in 1..Len(req.instances) |->
            <<req.instances[i].sepal_length, req.instances[i].sepal_width,
              req.instances[i].petal_length, req.instances[i].petal_width>>]

\* the last operation reached the wrapper's predict with valid features
ValidPredict ==
    \/ /\ req.op = "predict"
       /\ WellFormed(req.vectors[1])
       /\ \A i \in 1..4 : req.vectors[1][i] \in 0..10
    \/ req.op = "POST /predict" /\ BodyInRange

\* the last operation reached the wrapper's predict_batch
BatchReached ==
    \/ req.op = "predict_batch"
    \/ req.op = "POST /predict/batch" /\ BodyInRange

\* the class list the metadata holds
MetadataClassList ==
    IF "target_names" \in _metadata.has THEN _metadata.target_names ELSE <<>>

MetadataFeatureList ==
    IF "feature_names" \in _metadata.has THEN _metadata.feature_names ELSE <<>>

----------------------------------------------------------------------------
(* C1 *)

\* C1 as stated: after a successful load, predict on a valid input returns
\* a class name that is in the metadata's class list, also when the metadata
\* artifact was absent.
C1_Original ==
    (ValidPredict /\ LoadSucceeded) =>
        /\ resp.err = NoErr
        /\ Len(resp.preds) = 1
        /\ resp.preds[1].predicted_class \in Range(MetadataClassList)

\* C1 amended: after a successful load, predict on a valid input returns a
\* class name that is in the metadata's target_names when the metadata holds
\* that key, and otherwise one of the synthetic names class_0..class_2.
C1_Amended ==
    (ValidPredict /\ LoadSucceeded) =>
        /\ resp.err = NoErr
        /\ Len(resp.preds) = 1
        /\ resp.preds[1].predicted_class \in
             IF "target_names" \in _metadata.has
             THEN Range(_metadata.target_names)
             ELSE {"class_0", "class_1", "class_2"}

C1_Witness ==
    /\ ValidPredict
    /\ LoadSucceeded
    /\ _metadata = MetaEmpty
    /\ Len(resp.preds) = 1
    /\ resp.preds[1].predicted_class = "class_1"

----------------------------------------------------------------------------
(* C2 *)

\* C2: on a loaded wrapper predict_batch on n feature vectors returns n
\* results, the i-th being what predict returns for the i-th vector alone.
C2_BatchIsPredictPerInstance ==
    (BatchReached /\ LoadSucceeded
       /\ \A i \in 1..Len(ReqVectors) : WellFormed(ReqVectors[i])) =>
        /\ resp.err = NoErr
        /\ Len(resp.preds) = Len(ReqVectors)
        /\ \A i \in 1..Len(ReqVectors) :
              LET alone == ModelService_predict(_model, _metadata,
                                                ReqVectors[i])
              IN  alone.err = NoErr /\ resp.preds[i] = alone.value

C2_Witness ==
    /\ BatchReached
    /\ LoadSucceeded
    /\ Len(ReqVectors) = 2
    /\ Len(resp.preds) = 2
    /\ resp.preds[1].predicted_class # resp.preds[2].predicted_class

----------------------------------------------------------------------------
(* C3 *)

\* C3 as stated: /health reports unloaded/unhealthy without a model, and
\* after any successful load loaded/healthy with non-empty feature and class
\* lists; status is "healthy" exactly when model_loaded.
C3_Original ==
    req.op = "GET /health" =>
        /\ _model = "None" =>
              ~resp.health.model_loaded /\ resp.health.status = "unhealthy"
        /\ LoadSucceeded =>
              /\ resp.health.model_loaded
              /\ resp.health.status = "healthy"
              /\ resp.health.model_info.features # <<>>
              /\ resp.health.model_info.classes # <<>>
        /\ resp.health.status = "healthy" <=> resp.health.model_loaded

\* C3 amended: as stated, except that after a successful load the feature
\* and class lists are those the metadata holds: non-empty when the metadata
\* artifact supplied them, empty when it was absent or lacked them.
C3_Amended ==
    req.op = "GET /health" =>
        /\ _model = "None" =>
              ~resp.health.model_loaded /\ resp.health.status = "unhealthy"
        /\ LoadSucceeded =>
              /\ resp.health.model_loaded
              /\ resp.health.status = "healthy"
              /\ resp.health.model_info.features = MetadataFeatureList
              /\ resp.health.model_info.classes = MetadataClassList
              /\ _metadata = MetaFull =>
                    /\ resp.health.model_info.features # <<>>
                    /\ resp.health.model_info.classes # <<>>
        /\ resp.health.status = "healthy" <=> resp.health.model_loaded

C3_Witness ==
    /\ req.op = "GET /health"
    /\ LoadSucceeded
    /\ _metadata = MetaEmpty
    /\ resp.health.status = "healthy"
    /\ resp.health.model_info.classes = <<>>

----------------------------------------------------------------------------
(* C4 *)

\* C4: a POST /predict or /predict/batch body with a missing or out-of-range
\* field gets 422 and never reaches the wrapper; 0 and 10 are accepted.
C4_ValidationBeforeWrapper ==
    req.op \in {"POST /predict", "POST /predict/batch"} =>
        /\ ~BodyInRange =>
              /\ resp.status = 422
              /\ resp.err = NoErr
              /\ trace.calls = {}
              /\ trace.evals = <<>>
        /\ BodyInRange => resp.status # 422

C4_Witness ==
    /\ req.op = "POST /predict/batch"
    /\ Len(req.instances) = 2
    /\ InstanceInRange(req.instances[1])
    /\ ~InstanceInRange(req.instances[2])
    /\ resp.status = 422
    /\ trace.calls = {}

----------------------------------------------------------------------------
(* C5 *)

LoadStep == req'.op = "load_model" /\ _model = "None"

\* C5 as stated: load() on an unloaded wrapper fails exactly when the model
\* artifact is absent (NotFound, wrapper stays unloaded); with the model
\* present and the metadata absent it succeeds with empty metadata.
C5_Original ==
    [][LoadStep =>
         /\ resp'.err # NoErr <=> modelFile = "absent"
         /\ modelFile = "absent" =>
               /\ resp'.err.type = "FileNotFoundError"
               /\ _model' = "None"
               /\ _metadata' = MetaNone
         /\ (modelFile # "absent" /\ metaFile = "absent") =>
               /\ resp'.err = NoErr
               /\ _model' # "None"
               /\ _metadata' = MetaEmpty]_vars

\* C5 amended: load() on an unloaded wrapper raises NotFound exactly when
\* the model artifact is absent, and then stays unloaded; any other failure
\* is an existing artifact that cannot be deserialised; with the model
\* present and readable and the metadata absent it succeeds with empty
\* metadata.
C5_Amended ==
    [][LoadStep =>
         /\ resp'.err.type = "FileNotFoundError" <=> modelFile = "absent"
         /\ modelFile = "absent" =>
               /\ _model' = "None"
               /\ _metadata' = MetaNone
         /\ resp'.err # NoErr =>
               \/ modelFile = "absent"
               \/ modelFile = "unreadable"
               \/ metaFile = "unreadable"
         /\ (modelFile \in Models /\ metaFile = "absent") =>
               /\ resp'.err = NoErr
               /\ _model' = modelFile
               /\ _metadata' = MetaEmpty]_vars

C5_Witness ==
    /\ req.op = "load_model"
    /\ resp.err = NoErr
    /\ trace.reads = {"model"}
    /\ _model # "None"
    /\ _metadata = MetaEmpty
    /\ metaFile = "absent"

----------------------------------------------------------------------------
(* C6 *)

\* C6: once load() has succeeded no operation changes the model or the
\* metadata, and a further load() returns without error and reads nothing.
C6_FrozenAfterLoad ==
    [][LoadSucceeded =>
         /\ _model' = _model
         /\ _metadata' = _metadata
         /\ req'.op = "load_model" =>
               resp'.err = NoErr /\ trace'.reads = {}]_vars

C6_Witness ==
    /\ req.op = "load_model"
    /\ LoadSucceeded
    /\ resp.err = NoErr
    /\ trace.reads = {}
    /\ modelFile # _model
    /\ _metadata = MetaFull
    /\ metaFile = "absent"

----------------------------------------------------------------------------
(* C7 *)

\* C7: in the served process the model is set once, by the startup hook;
\* a request is handled only after the startup load succeeded, so it sees
\* is_loaded true; a failed startup load aborts and nothing is handled.
C7_StartupBeforeRequests ==
    [][/\ req'.op \in HttpOps =>
             phase = "serving" /\ LoadSucceeded /\ ModelService_is_loaded(_model')
       /\ _model' # _model => req'.op = "startup" /\ _model = "None"
       /\ (req'.op = "startup" /\ resp'.err # NoErr) => phase' = "aborted"
       /\ phase = "aborted" => phase' = "aborted" /\ req'.op \notin HttpOps
      ]_vars

C7_Witness ==
    /\ phase = "serving"
    /\ req.op = "POST /predict"
    /\ resp.status = 200
    /\ LoadSucceeded

----------------------------------------------------------------------------
(* C8 *)

\* C8: predict on a wrapper that has not been successfully loaded raises the
\* state error without invoking the model and leaves the wrapper unloaded;
\* inside POST /predict the answer is HTTP 500 embedding the error text.
C8_NotLoadedIsStateError ==
    (~LoadSucceeded /\ (\/ req.op = "predict"
                        \/ req.op = "POST /predict" /\ BodyInRange)) =>
        /\ resp.err = NotLoadedErr
        /\ resp.preds = <<>>
        /\ trace.evals = <<>>
        /\ ~ModelService_is_loaded(_model)
        /\ req.op = "POST /predict" =>
              /\ resp.status = 500
              /\ resp.detail = <<"Prediction failed: ", NotLoadedErr.msg>>

----------------------------------------------------------------------------
(* C9 *)

FailingPositions ==
    {i \in 1..Len(ReqVectors) :
        ModelService_predict(_model, _metadata, ReqVectors[i]).err # NoErr}

FirstFailing == CHOOSE i \in FailingPositions :
                    \A j \in FailingPositions : i <= j

\* C9: predict_batch evaluates in input order and stops at the first
\* failing instance, returning no results; the HTTP answer is then 500
\* without predictions, otherwise all n predictions.
C9_BatchAbortsOnFirstFailure ==
    BatchReached =>
        /\ \A j \in 1..Len(trace.evals) : trace.evals[j] = ReqVectors[j]
        /\ Len(trace.evals) <= Len(ReqVectors)
        /\ IF FailingPositions = {}
           THEN /\ resp.err = NoErr
                /\ Len(resp.preds) = Len(ReqVectors)
                /\ Len(trace.evals) = Len(ReqVectors)
                /\ req.op = "POST /predict/batch" => resp.status = 200
           ELSE /\ resp.err = ModelService_predict(
                                 _model, _metadata,
                                 ReqVectors[FirstFailing]).err
                /\ resp.preds = <<>>
                /\ Len(trace.evals) <= FirstFailing
                /\ req.op = "POST /predict/batch" => resp.status = 500

C9_Witness ==
    /\ req.op = "predict_batch"
    /\ LoadSucceeded
    /\ Len(req.vectors) = 2
    /\ ~WellFormed(req.vectors[1])
    /\ WellFormed(req.vectors[2])
    /\ resp.err.type = "ValueError"
    /\ resp.preds = <<>>
    /\ Len(trace.evals) = 1

----------------------------------------------------------------------------
(* C10 *)

\* C10: whenever is_loaded() is true the metadata is a mapping, not unset.
C10_LoadedImpliesMetadata ==
    ModelService_is_loaded(_model) => ~_metadata.isNone

====
